---- MODULE Spec2Model ----
(***************************************************************************)
(* The SigNoz metrics adapter (adapter/provider): the custom-metrics       *)
(* provider that answers GetMetricByName and GetMetricBySelector from one  *)
(* SigNoz /api/v5/query_range call, and the client that makes that call.   *)
(*                                                                         *)
(* A series value is a Go float64.  It is modelled as an integer count of  *)
(* half-thousandths (3 stands for 0.0015), so that the conversion          *)
(* int64(total*1000) of the result truncates and is not the identity.      *)
(***************************************************************************)
EXTENDS Integers, Sequences, FiniteSets, TLC

(***************************************************************************)
(* Bounds of the model.                                                    *)
(***************************************************************************)
\* the largest number of series in one backend response
MaxSeries == 2
\* the largest number of objects helpers.ListObjectNames resolves
MaxPods == 2
\* the largest number of queries built one after the other
MaxBuilds == 2

(***************************************************************************)
(* Sequence helpers.                                                       *)
(***************************************************************************)
Range(s) == {s[i] : i \in DOMAIN s}

RECURSIVE Flatten(_)
\* the concatenation of a sequence of sequences, in order
Flatten(ss) == IF ss = <<>> THEN <<>> ELSE Head(ss) \o Flatten(Tail(ss))

SeqsUpTo(S, n) == UNION {[1..k -> S] : k \in 0..n}

\* the sequences without repetition over S, of length at most n
DistinctSeqsUpTo(S, n) == {s \in SeqsUpTo(S, n) : Cardinality(Range(s)) = Len(s)}

(***************************************************************************)
(* JSON values as the backend sends them.                                  *)
(***************************************************************************)
Num(n) == [t |-> "num", v |-> n]
Str(s) == [t |-> "str", v |-> s]
Null == [t |-> "null"]

podLabelKey == "k8s.pod.name"

\* fmt.Sprintf("%v", v) of a decoded JSON value (an `any`)
Sprintf(v) ==
    CASE v.t = "str" -> v.v
      [] v.t = "num" -> ToString(v.v)
      [] v.t = "null" -> "<nil>"

RECURSIVE LabelMapFrom(_, _)
\* the loop of LabelMap: a later label of the same key overwrites an earlier one
LabelMapFrom(labels, m) ==
    IF labels = <<>> THEN m
    ELSE LET l == Head(labels)
             k == l.Key.Name
             m2 == [x \in (DOMAIN m) \cup {k} |->
                        IF x = k THEN Sprintf(l.Value) ELSE m[x]]
         IN LabelMapFrom(Tail(labels), m2)

\* SignozResultSeries.LabelMap
LabelMap(s) == LabelMapFrom(s.Labels, <<>>)

(***************************************************************************)
(* The backend's responses: the inputs of the model.                       *)
(***************************************************************************)
\* the "value" field of a sample: JSON numbers, and a non-numeric one
SampleValues == {Num(0), Num(3), Str("abc")}

\* the value sequences of a raw series: empty, one sample, and two samples
\* whose last is not the larger one
RawValueSeqs == {<<>>} \cup {<<v>> : v \in SampleValues} \cup {<<Num(3), Num(0)>>}

\* []SignozSeriesValue of a value sequence, timestamps in order
Samples(vs) == [i \in 1..Len(vs) |-> [Timestamp |-> i, Value |-> vs[i]]]

PodLabel(v) == [Key |-> [Name |-> podLabelKey], Value |-> Str(v)]

\* the label lists of a raw series: no label, or the pod label of one of two pods
RawLabelSets == {<<>>, <<PodLabel("pod-a")>>, <<PodLabel("pod-b")>>}

\* SignozResultSeries, as sent
RawSeries == [Labels : RawLabelSets, Values : {Samples(vs) : vs \in RawValueSeqs}]

\* SignozQueryResult and SignozResultAggregation around lists of series
Aggregation(ss) == [Series |-> ss]
QueryResult(aggs) == [Aggregations |-> aggs]

\* the ways a list of series is spread over results and aggregations
Shapes == {"one", "spread"}

\* "one": all series in one aggregation of one result.  "spread": an empty
\* result, then one result per series, the last of them with an empty
\* aggregation after its series
Nest(shape, ss) ==
    IF shape = "one"
    THEN <<QueryResult(<<Aggregation(ss)>>)>>
    ELSE <<QueryResult(<<>>)>>
         \o [i \in 1..Len(ss) |->
               QueryResult(IF i = Len(ss)
                           THEN <<Aggregation(<<ss[i]>>), Aggregation(<<>>)>>
                           ELSE <<Aggregation(<<ss[i]>>)>>)]

\* a body that is not JSON of the expected shape
Garbage == [json |-> FALSE]

\* the body {}: valid JSON with none of the fields of SignozQueryRangeResponse
EmptyObject == [json |-> TRUE]

\* a JSON body: SignozQueryRangeResponse as sent
JsonBody(st, rs) == [json |-> TRUE, Status |-> st, Results |-> rs]

\* a body with the success marker
SuccessBody(ss, shape) == JsonBody("success", Nest(shape, ss))

\* the bodies that report a failure in their status field; they carry at most
\* one series
ErrorBodies == {JsonBody("error", Nest("one", ss)) : ss \in SeqsUpTo(RawSeries, 1)}

\* what client.Http.Do and io.ReadAll can give
Response(code, b) == [kind |-> "response", StatusCode |-> code, Body |-> b]

\* the outcomes other than a 200 with a success body
\* that the http.Client Timeout of 10 s expires makes Http.Do return an error
OtherOutcomes ==
    {[kind |-> "neterr"], [kind |-> "timeout"], [kind |-> "readerr"],
     Response(500, Garbage), Response(200, Garbage), Response(200, EmptyObject)}
    \cup {Response(200, b) : b \in ErrorBodies}

(***************************************************************************)
(* SignozClient.Query: decoding the response.                              *)
(***************************************************************************)
\* all raw series of a body, in order
RawSeriesOf(results) ==
    Flatten([i \in DOMAIN results |->
        Flatten([j \in DOMAIN results[i].Aggregations |->
            results[i].Aggregations[j].Series])])

\* json.Unmarshal of one sample into SignozSeriesValue{Timestamp int64, Value float64}
DecodableSample(x) == x.Value.t = "num"

\* the fields of a body; a field the body does not have leaves the zero value
\* of the struct
StatusOf(body) == IF "Status" \in DOMAIN body THEN body.Status ELSE ""
ResultsOf(body) == IF "Results" \in DOMAIN body THEN body.Results ELSE <<>>

\* json.Unmarshal(bodyBytes, &responseData) succeeds
Decodable(body) ==
    /\ body.json
    /\ \A s \in Range(RawSeriesOf(ResultsOf(body))) :
          \A x \in Range(s.Values) : DecodableSample(x)

DecodeSeries(s) ==
    [Labels |-> s.Labels,
     Values |-> [i \in DOMAIN s.Values |->
                    [Timestamp |-> s.Values[i].Timestamp, Value |-> s.Values[i].Value.v]]]

\* the decoded SignozQueryRangeResponse
Unmarshal(body) ==
    LET results == ResultsOf(body)
    IN [Status |-> StatusOf(body),
        Results |-> [i \in DOMAIN results |->
           [Aggregations |-> [j \in DOMAIN results[i].Aggregations |->
               [Series |-> [k \in DOMAIN results[i].Aggregations[j].Series |->
                   DecodeSeries(results[i].Aggregations[j].Series[k])]]]]]]

NoResponse == [Status |-> "", Results |-> <<>>]

\* an expired timeout taken for an answer without series
Query_TimeoutAsEmpty(outcome) ==
    IF outcome.kind = "timeout"
    THEN [err |-> "", resp |-> NoResponse]
    ELSE IF outcome.kind = "neterr"
    THEN [err |-> "failed post signoz query", resp |-> NoResponse]
    ELSE IF outcome.kind = "readerr"
    THEN [err |-> "failed to read response body", resp |-> NoResponse]
    ELSE IF outcome.StatusCode # 200
    THEN [err |-> "signoz returned non-OK status code", resp |-> NoResponse]
    ELSE IF ~Decodable(outcome.Body)
    THEN [err |-> "failed to decode response body", resp |-> NoResponse]
    ELSE [err |-> "", resp |-> Unmarshal(outcome.Body)]

\* SignozClient.Query from the point where Http.Do returns: (response, err)
Query(outcome) ==
    IF outcome.kind \in {"neterr", "timeout"}
    THEN [err |-> "failed post signoz query", resp |-> NoResponse]
    ELSE IF outcome.kind = "readerr"
    THEN [err |-> "failed to read response body", resp |-> NoResponse]
    ELSE IF outcome.StatusCode # 200
    THEN [err |-> "signoz returned non-OK status code", resp |-> NoResponse]
    ELSE IF ~Decodable(outcome.Body)
    THEN [err |-> "failed to decode response body", resp |-> NoResponse]
    ELSE [err |-> "", resp |-> Unmarshal(outcome.Body)]

(***************************************************************************)
(* SignozQueryRangeResponse.Series: normalization.                         *)
(***************************************************************************)
\* a slip of the index: the first sample instead of the last
SeriesOf_First(s) ==
    IF Len(s.Values) = 0 THEN <<>>
    ELSE <<[Labels |-> LabelMap(s), Value |-> s.Values[1].Value]>>

\* one series of the loop body: nothing for an empty value sequence
SeriesOf(s) ==
    IF Len(s.Values) = 0 THEN <<>>
    ELSE <<[Labels |-> LabelMap(s), Value |-> s.Values[Len(s.Values)].Value]>>

Series(resp) ==
    LET raw == RawSeriesOf(resp.Results)
    IN Flatten([i \in DOMAIN raw |-> SeriesOf(raw[i])])

(***************************************************************************)
(* The provider: configuration, allow-list, query builder.                 *)
(***************************************************************************)
\* the filter expressions a provider is constructed with
FilterExpressions == {"", "env='prod'"}

\* NewSignozProvider: the provider after construction
NewSignozProvider(endpoint, apiKey, timeRangeMinutes, metrics, filterExpression) ==
    [timeRangeMinutes |-> timeRangeMinutes,
     metrics |-> metrics,
     filterExpression |-> filterExpression,
     signoz |-> [Endpoint |-> endpoint, ApiKey |-> apiKey]]

\* every endpoint taken for one a request can be made to
ValidEndpoint_Always(endpoint) == TRUE

\* http.NewRequest("POST", client.Endpoint + "/api/v5/query_range", ...) succeeds:
\* "%zz" is an endpoint it cannot parse (an invalid escape)
ValidEndpoint(endpoint) == endpoint # "%zz"

Providers ==
    { NewSignozProvider("https://signoz.example.com", "token", 5,
                        <<"phpfpm_active_processes", "nginx_connections">>, f) :
        f \in FilterExpressions }
    \cup { NewSignozProvider("%zz", "token", 5,
                             <<"phpfpm_active_processes", "nginx_connections">>, "") }

\* the metric names a request can carry: the allow-listed ones and another
MetricNames == {"phpfpm_active_processes", "nginx_connections", "unknown_metric"}

\* the names of Kubernetes objects (never empty)
ObjectNames == {"pod-a", "pod-b", "pod-c"}

\* a slip of the comparison: any entry that differs from the name admits it
isAllowedMetric_Differs(p, name) == \E i \in DOMAIN p.metrics : p.metrics[i] # name

\* without the allow-list check: every metric name is admitted
isAllowedMetric_Always(p, name) == TRUE

isAllowedMetric(p, name) == \E i \in DOMAIN p.metrics : p.metrics[i] = name

\* a nil *SignozQueryFilter
NilFilter == [nil |-> TRUE]

\* the filter set without the test of line 110: an empty expression too
buildQuery_AlwaysFilter(p, metricName, now1, now2) ==
    LET query ==
          [Type |-> "builder_query",
           Spec |-> [Name |-> "A",
                     Signal |-> "metrics",
                     StepInterval |-> 60,
                     Aggregations |-> <<[MetricName |-> metricName,
                                         TimeAggregation |-> "avg",
                                         SpaceAggregation |-> "avg"]>>,
                     GroupBy |-> <<[Name |-> podLabelKey,
                                    FieldDataType |-> "string",
                                    FieldContext |-> "resource"]>>,
                     Filter |-> [nil |-> FALSE, Expression |-> p.filterExpression]]]
    IN [RequestType |-> "time_series",
        Start |-> now1 - p.timeRangeMinutes * 60000,
        End |-> now2,
        CompositeQuery |-> [Queries |-> <<query>>]]

\* the query grouped by another label than the one the handlers read
buildQuery_GroupByPod(p, metricName, now1, now2) ==
    LET query ==
          [Type |-> "builder_query",
           Spec |-> [Name |-> "A",
                     Signal |-> "metrics",
                     StepInterval |-> 60,
                     Aggregations |-> <<[MetricName |-> metricName,
                                         TimeAggregation |-> "avg",
                                         SpaceAggregation |-> "avg"]>>,
                     GroupBy |-> <<[Name |-> "pod",
                                    FieldDataType |-> "string",
                                    FieldContext |-> "resource"]>>,
                     Filter |-> IF p.filterExpression # ""
                                THEN [nil |-> FALSE, Expression |-> p.filterExpression]
                                ELSE NilFilter]]
    IN [RequestType |-> "time_series",
        Start |-> now1 - p.timeRangeMinutes * 60000,
        End |-> now2,
        CompositeQuery |-> [Queries |-> <<query>>]]

\* buildQuery; now1 and now2 are what its two calls of time.Now() return (ms)
buildQuery(p, metricName, now1, now2) ==
    LET query ==
          [Type |-> "builder_query",
           Spec |-> [Name |-> "A",
                     Signal |-> "metrics",
                     StepInterval |-> 60,
                     Aggregations |-> <<[MetricName |-> metricName,
                                         TimeAggregation |-> "avg",
                                         SpaceAggregation |-> "avg"]>>,
                     GroupBy |-> <<[Name |-> podLabelKey,
                                    FieldDataType |-> "string",
                                    FieldContext |-> "resource"]>>,
                     Filter |-> IF p.filterExpression # ""
                                THEN [nil |-> FALSE, Expression |-> p.filterExpression]
                                ELSE NilFilter]]
    IN [RequestType |-> "time_series",
        Start |-> now1 - p.timeRangeMinutes * 60000,
        End |-> now2,
        CompositeQuery |-> [Queries |-> <<query>>]]

\* a field with omitempty: left out of the JSON object when it is empty
OmitEmpty(name, empty, value) == IF empty THEN <<>> ELSE name :> value

\* json.Marshal of a *SignozQueryFilter that is not nil
MarshalFilter(f) == OmitEmpty("expression", f.Expression = "", f.Expression)

\* json.Marshal of a SignozQuerySpec as buildQuery fills it
MarshalSpec(spec) ==
    [name |-> spec.Name,
     signal |-> spec.Signal,
     stepInterval |-> spec.StepInterval,
     aggregations |-> [i \in DOMAIN spec.Aggregations |->
                         [metricName |-> spec.Aggregations[i].MetricName,
                          timeAggregation |-> spec.Aggregations[i].TimeAggregation,
                          spaceAggregation |-> spec.Aggregations[i].SpaceAggregation]]]
    @@ OmitEmpty("groupBy", spec.GroupBy = <<>>,
                 [i \in DOMAIN spec.GroupBy |->
                    [name |-> spec.GroupBy[i].Name,
                     fieldDataType |-> spec.GroupBy[i].FieldDataType,
                     fieldContext |-> spec.GroupBy[i].FieldContext]])
    @@ OmitEmpty("filter", spec.Filter.nil, MarshalFilter(spec.Filter))

\* json.Marshal(&query): the JSON object posted, by field name
Marshal(query) ==
    [start |-> query.Start,
     end |-> query.End,
     requestType |-> query.RequestType,
     compositeQuery |->
        [queries |-> [i \in DOMAIN query.CompositeQuery.Queries |->
            [type |-> query.CompositeQuery.Queries[i].Type,
             spec |-> MarshalSpec(query.CompositeQuery.Queries[i].Spec)]]]]

\* the first reading of the clock in a request (Unix ms)
Epoch == 1000000

\* how far the clock can move between the two readings of buildQuery (ms)
ClockSkews == {0, 1}

\* the POST that SignozClient.Query hands to Http.Do
HttpRequest(client, query) ==
    [Method |-> "POST",
     URL |-> <<client.Endpoint, "/api/v5/query_range">>,
     ApiKey |-> client.ApiKey,
     Body |-> Marshal(query)]

NoRequest == [Method |-> ""]

(***************************************************************************)
(* Aggregation.                                                            *)
(***************************************************************************)
RECURSIVE SumValues(_)
\* total += s.Value over a list of series
SumValues(ss) == IF ss = <<>> THEN 0 ELSE Head(ss).Value + SumValues(Tail(ss))

\* s.Labels[key]: the value, or "" when the map has no such key
LabelValue(s, key) == IF key \in DOMAIN s.Labels THEN s.Labels[key] ELSE ""

\* the series that the first loop of GetMetricByName adds up
MatchingSeries(ss, name) ==
    SelectSeq(ss, LAMBDA s : LabelValue(s, podLabelKey) = name)

\* without the second loop: no match gives 0
ByNameTotal_NoFallback(ss, name) == SumValues(MatchingSeries(ss, name))

\* the fallback decided by the total instead of by found
ByNameTotal_ZeroFallsBack(ss, name) ==
    LET total == SumValues(MatchingSeries(ss, name))
    IN IF total # 0 THEN total ELSE SumValues(ss)

\* the first loop left at its first match
ByNameTotal_FirstMatch(ss, name) ==
    LET matched == MatchingSeries(ss, name)
    IN IF matched # <<>> THEN Head(matched).Value ELSE SumValues(ss)

\* total after both loops of GetMetricByName
ByNameTotal(ss, name) ==
    LET matched == MatchingSeries(ss, name)
        found == matched # <<>>
    IN IF found THEN SumValues(matched) ELSE SumValues(ss)

\* int64(total*1000), the argument of resource.NewMilliQuantity: truncation
\* toward zero of a total counted in half-thousandths
MilliValue(total) == IF total >= 0 THEN total \div 2 ELSE -((-total) \div 2)

\* helpers.ReferenceFor when it succeeds
ObjectReference(name, namespace) ==
    [Kind |-> "Pod", Name |-> name, Namespace |-> namespace]

MetricValue(name, namespace, metric, total) ==
    [DescribedObject |-> ObjectReference(name, namespace),
     Metric |-> [Name |-> metric],
     Value |-> MilliValue(total)]

\* byPod[pod] = s.Value instead of +=: the last series of a pod wins
ByPod_LastWins(ss) ==
    [pod \in {s.Labels[podLabelKey] :
                s \in {x \in Range(ss) : podLabelKey \in DOMAIN x.Labels}} |->
        LET own == SelectSeq(ss, LAMBDA s :
                      podLabelKey \in DOMAIN s.Labels /\ s.Labels[podLabelKey] = pod)
        IN own[Len(own)].Value]

\* byPod of GetMetricBySelector: the total per value of the pod label
ByPod(ss) ==
    [pod \in {s.Labels[podLabelKey] :
                s \in {x \in Range(ss) : podLabelKey \in DOMAIN x.Labels}} |->
        SumValues(SelectSeq(ss, LAMBDA s :
            podLabelKey \in DOMAIN s.Labels /\ s.Labels[podLabelKey] = pod))]

\* the second loop ranging over byPod instead of podNames
PodsWithSeries_FromSeries(byPod, pods) ==
    SelectSeq(<<"pod-a", "pod-b", "pod-c">>, LAMBDA pod : pod \in DOMAIN byPod)

\* the pods the second loop of GetMetricBySelector does not skip, in order
PodsWithSeries(byPod, pods) == SelectSeq(pods, LAMBDA pod : pod \in DOMAIN byPod)

\* with the fallback of GetMetricByName: no pod with series gives every pod the total
SelectorItems_GroupFallback(ss, pods, namespace, metric) ==
    LET byPod == ByPod(ss)
        kept == PodsWithSeries(byPod, pods)
    IN IF kept = <<>>
       THEN [i \in DOMAIN pods |-> MetricValue(pods[i], namespace, metric, SumValues(ss))]
       ELSE [i \in DOMAIN kept |-> MetricValue(kept[i], namespace, metric, byPod[kept[i]])]

\* items of GetMetricBySelector when every ReferenceFor succeeds
SelectorItems(ss, pods, namespace, metric) ==
    LET byPod == ByPod(ss)
        kept == PodsWithSeries(byPod, pods)
    IN [i \in DOMAIN kept |-> MetricValue(kept[i], namespace, metric, byPod[kept[i]])]

(***************************************************************************)
(* State.                                                                  *)
(***************************************************************************)
VARIABLES
    provider,   \* the signozProvider: its configuration
    pc,         \* where the request in progress stands
    req,        \* the arguments of the request in progress
    inflight,   \* the HTTP request the backend has not answered yet
    series,     \* the normalized series of the handler
    podNames,   \* what helpers.ListObjectNames returned
    result,     \* what the handler returned
    httpCalls,  \* HTTP requests issued for the request in progress
    listCalls,  \* calls of helpers.ListObjectNames for the request in progress
    body,       \* a response body handed to the decoder on its own
    queried,    \* what SignozClient.Query returned for it
    answered,   \* how the backend call of the request in progress ended
    cancelled,  \* the caller cancelled the context of the request in progress
    threads,    \* the calls of the handlers that run concurrently, one per goroutine
    built       \* the queries built so far by a sequence of builds

vars == <<provider, pc, req, inflight, series, podNames, result,
          httpCalls, listCalls, body, queried, answered, cancelled, threads, built>>

\* the state of one request at a time, and of the decoder on its own
single == <<pc, req, inflight, series, podNames, result,
            httpCalls, listCalls, body, queried, answered, cancelled>>

NoReq == [op |-> "none"]
NoResult == [kind |-> "none"]
NotQueried == [err |-> "", resp |-> NoResponse]

NoAnswer == [kind |-> "none"]

\* how a backend call ended: the error of Http.Do or io.ReadAll, or the status
\* code and, of the body, whether it decodes and what its status field says
Answer(outcome) ==
    IF outcome.kind # "response" THEN [kind |-> outcome.kind]
    ELSE [kind |-> "response",
          StatusCode |-> outcome.StatusCode,
          decodable |-> Decodable(outcome.Body),
          shaped |-> "Status" \in DOMAIN outcome.Body,
          Status |-> StatusOf(outcome.Body)]

Error(e) == [kind |-> "error", err |-> e]
Value(mv) == [kind |-> "value", value |-> mv]
List(items) == [kind |-> "list", Items |-> items]

\* what helpers.ListObjectNames can return: an error or a list of object names
ListOutcomes ==
    {[err |-> TRUE, names |-> <<>>]}
    \cup {[err |-> FALSE, names |-> ns] : ns \in DistinctSeqsUpTo(ObjectNames, MaxPods)}

\* the sets of objects for which helpers.ReferenceFor fails
RefFailSets == {{}, {"pod-b"}, ObjectNames}

Init ==
    /\ provider \in Providers
    /\ pc = "idle"
    /\ req = NoReq
    /\ inflight = NoRequest
    /\ series = <<>>
    /\ podNames = <<>>
    /\ result = NoResult
    /\ httpCalls = 0
    /\ listCalls = 0
    /\ body = Garbage
    /\ queried = NotQueried
    /\ answered = NoAnswer
    /\ cancelled = FALSE
    /\ threads = <<>>
    /\ built = <<>>

(***************************************************************************)
(* GetMetricByName.                                                        *)
(***************************************************************************)
\* an empty series list reported as an error
ByNameResult_NoData(ss, r, refOK) ==
    IF ss = <<>> THEN Error("no data")
    ELSE IF ~refOK THEN Error("ReferenceFor failed")
    ELSE Value(MetricValue(r.name, r.namespace, r.metric, ByNameTotal(ss, r.name)))

\* the result of GetMetricByName once the query returned without error
ByNameResult(ss, r, refOK) ==
    IF ~refOK THEN Error("ReferenceFor failed")
    ELSE Value(MetricValue(r.name, r.namespace, r.metric, ByNameTotal(ss, r.name)))

\* entry: the allow-list check, then the query is built and, when the request
\* can be made, posted
GetMetricByNameCall(name, metric, skew) ==
    /\ pc = "idle"
    /\ req' = [op |-> "GetMetricByName", name |-> name,
               namespace |-> "default", metric |-> metric]
    /\ IF ~isAllowedMetric(provider, metric)
       THEN /\ result' = Error("MetricNotFound")
            /\ pc' = "done"
            /\ UNCHANGED <<inflight, httpCalls>>
       ELSE IF ~ValidEndpoint(provider.signoz.Endpoint)
       THEN /\ result' = Error("invalid request")
            /\ pc' = "done"
            /\ UNCHANGED <<inflight, httpCalls>>
       ELSE /\ inflight' = HttpRequest(provider.signoz,
                              buildQuery(provider, metric, Epoch, Epoch + skew))
            /\ httpCalls' = httpCalls + 1
            /\ pc' = "query"
            /\ UNCHANGED result
    /\ UNCHANGED <<provider, series, podNames, listCalls, body, queried,
                   answered, cancelled,
                   threads, built>>

\* the backend call ends; the handler runs to its return
GetMetricByNameReturn(outcome) ==
    /\ pc = "query"
    /\ req.op = "GetMetricByName"
    /\ LET q == Query(outcome)
       IN IF q.err # ""
          THEN /\ result' = Error(q.err)
               /\ series' = <<>>
          ELSE LET ss == Series(q.resp)
               IN /\ series' = ss
                  /\ result' \in {ByNameResult(ss, req, refOK) : refOK \in BOOLEAN}
    /\ inflight' = NoRequest
    /\ answered' = Answer(outcome)
    /\ pc' = "done"
    /\ UNCHANGED <<provider, req, podNames, httpCalls, listCalls, body, queried,
                   cancelled,
                   threads, built>>

(***************************************************************************)
(* GetMetricBySelector.                                                    *)
(***************************************************************************)
\* the items computed before the first failing reference returned as the list
BySelectorResult_Partial(ss, pods, r, refFail) ==
    LET kept == PodsWithSeries(ByPod(ss), pods)
        failing == {i \in DOMAIN kept : kept[i] \in refFail}
        n == IF failing = {} THEN Len(kept)
             ELSE (CHOOSE i \in failing : \A j \in failing : i <= j) - 1
    IN List([i \in 1..n |-> MetricValue(kept[i], r.namespace, r.metric,
                                         ByPod(ss)[kept[i]])])

\* the result of GetMetricBySelector once the objects are listed
BySelectorResult(ss, pods, r, refFail) ==
    IF \E pod \in Range(PodsWithSeries(ByPod(ss), pods)) : pod \in refFail
    THEN Error("ReferenceFor failed")
    ELSE List(SelectorItems(ss, pods, r.namespace, r.metric))

\* what GetMetricBySelector returns for a metric outside the allow-list
NotAllowedBySelector == List(<<>>)

GetMetricBySelectorCall(metric, skew) ==
    /\ pc = "idle"
    /\ req' = [op |-> "GetMetricBySelector", namespace |-> "default", metric |-> metric]
    /\ IF ~isAllowedMetric(provider, metric)
       THEN /\ result' = NotAllowedBySelector
            /\ pc' = "done"
            /\ UNCHANGED <<inflight, httpCalls>>
       ELSE IF ~ValidEndpoint(provider.signoz.Endpoint)
       THEN /\ result' = Error("invalid request")
            /\ pc' = "done"
            /\ UNCHANGED <<inflight, httpCalls>>
       ELSE /\ inflight' = HttpRequest(provider.signoz,
                              buildQuery(provider, metric, Epoch, Epoch + skew))
            /\ httpCalls' = httpCalls + 1
            /\ pc' = "query"
            /\ UNCHANGED result
    /\ UNCHANGED <<provider, series, podNames, listCalls, body, queried,
                   answered, cancelled,
                   threads, built>>

\* the backend call ends; on success the handler asks for the objects
GetMetricBySelectorQueried(outcome) ==
    /\ pc = "query"
    /\ req.op = "GetMetricBySelector"
    /\ LET q == Query(outcome)
       IN IF q.err # ""
          THEN /\ result' = Error(q.err)
               /\ series' = <<>>
               /\ pc' = "done"
               /\ UNCHANGED listCalls
          ELSE /\ series' = Series(q.resp)
               /\ listCalls' = listCalls + 1
               /\ pc' = "list"
               /\ UNCHANGED result
    /\ inflight' = NoRequest
    /\ answered' = Answer(outcome)
    /\ UNCHANGED <<provider, req, podNames, httpCalls, body, queried, cancelled,
                   threads, built>>

\* helpers.ListObjectNames returns; the handler runs to its return
GetMetricBySelectorReturn(listed, refFail) ==
    /\ pc = "list"
    /\ IF listed.err
       THEN /\ result' = Error("ListObjectNames failed")
            /\ UNCHANGED podNames
       ELSE /\ podNames' = listed.names
            /\ result' = BySelectorResult(series, listed.names, req, refFail)
    /\ pc' = "done"
    /\ UNCHANGED <<provider, req, inflight, series, httpCalls, listCalls, body, queried,
                   answered, cancelled,
                   threads, built>>

\* the caller cancels the context it passed while the backend call is in
\* flight.  Both handlers discard their context.Context (the parameter "_") and
\* Query makes its request with http.NewRequest, without a context: nothing
\* of the request in progress changes
Cancel ==
    /\ pc = "query"
    /\ ~cancelled
    /\ cancelled' = TRUE
    /\ UNCHANGED <<provider, pc, req, inflight, series, podNames, result,
                   httpCalls, listCalls, body, queried, answered,
                   threads, built>>

\* the caller has the result; the provider is ready for the next request
Finish ==
    /\ pc = "done"
    /\ pc' = "idle"
    /\ req' = NoReq
    /\ series' = <<>>
    /\ podNames' = <<>>
    /\ result' = NoResult
    /\ httpCalls' = 0
    /\ listCalls' = 0
    /\ answered' = NoAnswer
    /\ cancelled' = FALSE
    /\ UNCHANGED <<provider, inflight, body, queried,
                   threads, built>>

Next ==
    \/ \E name \in ObjectNames, metric \in MetricNames, skew \in ClockSkews :
          GetMetricByNameCall(name, metric, skew)
    \/ \E outcome \in OtherOutcomes : GetMetricByNameReturn(outcome)
    \/ \E k \in 0..MaxSeries : \E ss \in [1..k -> RawSeries], shape \in Shapes :
          GetMetricByNameReturn(Response(200, SuccessBody(ss, shape)))
    \/ \E metric \in MetricNames, skew \in ClockSkews :
          GetMetricBySelectorCall(metric, skew)
    \/ \E outcome \in OtherOutcomes : GetMetricBySelectorQueried(outcome)
    \/ \E k \in 0..MaxSeries : \E ss \in [1..k -> RawSeries], shape \in Shapes :
          GetMetricBySelectorQueried(Response(200, SuccessBody(ss, shape)))
    \/ \E listed \in ListOutcomes, refFail \in RefFailSets :
          GetMetricBySelectorReturn(listed, refFail)
    \/ Cancel
    \/ Finish

Spec == Init /\ [][Next]_vars

(***************************************************************************)
(* GetMetricByName for any name the API can hand over: types.NamespacedName *)
(* is a pair of strings and the handler does not check its Name, the empty *)
(* string included.                                                        *)
(***************************************************************************)
AnyNames == {"", "pod-a"}

NextAnyName ==
    \/ \E name \in AnyNames, metric \in MetricNames :
          GetMetricByNameCall(name, metric, 0)
    \/ \E outcome \in OtherOutcomes : GetMetricByNameReturn(outcome)
    \/ \E k \in 0..MaxSeries : \E ss \in [1..k -> RawSeries] :
          GetMetricByNameReturn(Response(200, SuccessBody(ss, "one")))
    \/ Finish

SpecAnyName == Init /\ [][NextAnyName]_vars

(***************************************************************************)
(* External metrics: GetExternalMetric and ListAllExternalMetrics.         *)
(***************************************************************************)
\* providers with an empty allow-list, one entry, two entries, and an entry
\* given twice
ExternalProviders ==
    { NewSignozProvider("https://signoz.example.com", "token", 5, ms, "") :
        ms \in {<<>>, <<"phpfpm_active_processes">>,
                <<"phpfpm_active_processes", "nginx_connections">>,
                <<"nginx_connections", "nginx_connections">>} }

\* the namespaces and the selectors an external-metric request carries
Namespaces == {"", "default", "prod"}
Selectors == {"", "app=web", "env=prod"}

\* ListAllExternalMetrics: one ExternalMetricInfo per entry of p.metrics, in order
ListAllExternalMetrics(p) == [i \in DOMAIN p.metrics |-> [Metric |-> p.metrics[i]]]

\* an item for every metric on the allow-list
ExternalMetricItems_WhenAllowed(p, metric) ==
    IF isAllowedMetric(p, metric) THEN <<[MetricName |-> metric, Value |-> 0]>> ELSE <<>>

\* the Items of GetExternalMetric: []external_metrics.ExternalMetricValue{}
ExternalMetricItems(p, metric) == <<>>

ExternalList(items) == [kind |-> "external", Items |-> items]
Infos(infos) == [kind |-> "infos", infos |-> infos]

\* GetExternalMetric: returns at once, reading none of its arguments
GetExternalMetric(namespace, selector, metric) ==
    /\ pc = "idle"
    /\ req' = [op |-> "GetExternalMetric", namespace |-> namespace,
               selector |-> selector, metric |-> metric]
    /\ result' = ExternalList(ExternalMetricItems(provider, metric))
    /\ pc' = "done"
    /\ UNCHANGED <<provider, inflight, series, podNames, httpCalls, listCalls,
                   body, queried, answered, cancelled, threads, built>>

ListAllExternalMetricsCall ==
    /\ pc = "idle"
    /\ req' = [op |-> "ListAllExternalMetrics"]
    /\ result' = Infos(ListAllExternalMetrics(provider))
    /\ pc' = "done"
    /\ UNCHANGED <<provider, inflight, series, podNames, httpCalls, listCalls,
                   body, queried, answered, cancelled, threads, built>>

InitExternal ==
    /\ provider \in ExternalProviders
    /\ pc = "idle"
    /\ req = NoReq
    /\ inflight = NoRequest
    /\ series = <<>>
    /\ podNames = <<>>
    /\ result = NoResult
    /\ httpCalls = 0
    /\ listCalls = 0
    /\ body = Garbage
    /\ queried = NotQueried
    /\ answered = NoAnswer
    /\ cancelled = FALSE
    /\ threads = <<>>
    /\ built = <<>>

NextExternal ==
    \/ \E namespace \in Namespaces, selector \in Selectors, metric \in MetricNames :
          GetExternalMetric(namespace, selector, metric)
    \/ ListAllExternalMetricsCall
    \/ Finish

SpecExternal == InitExternal /\ [][NextExternal]_vars

(***************************************************************************)
(* The decoder on its own: SignozClient.Query on a 200 response, then      *)
(* Series, as both handlers run them.                                      *)
(***************************************************************************)
InitQuery ==
    /\ provider \in Providers
    /\ pc = "received"
    /\ \/ body \in {Garbage} \cup ErrorBodies
       \/ \E k \in 0..MaxSeries : \E ss \in [1..k -> RawSeries], shape \in Shapes :
             body = SuccessBody(ss, shape)
    /\ req = NoReq
    /\ inflight = NoRequest
    /\ series = <<>>
    /\ podNames = <<>>
    /\ result = NoResult
    /\ httpCalls = 0
    /\ listCalls = 0
    /\ queried = NotQueried
    /\ answered = NoAnswer
    /\ cancelled = FALSE
    /\ threads = <<>>
    /\ built = <<>>

\* queryResponse, err := p.signoz.Query(...); series := queryResponse.Series()
QueryAndSeries ==
    /\ pc = "received"
    /\ LET q == Query(Response(200, body))
       IN /\ queried' = q
          /\ series' = IF q.err # "" THEN <<>> ELSE Series(q.resp)
    /\ pc' = "normalized"
    /\ UNCHANGED <<provider, req, inflight, podNames, result, httpCalls, listCalls, body,
                   answered, cancelled,
                   threads, built>>

NextQuery == QueryAndSeries

SpecQuery == InitQuery /\ [][NextQuery]_vars

(***************************************************************************)
(* Concurrent requests: the API server calls the handlers of one provider  *)
(* from several goroutines.  Each call has its own locals; the calls       *)
(* interleave at the backend call and at the listing of the objects.       *)
(***************************************************************************)
Requests == {1, 2}

\* the requests made concurrently
ConcRequests ==
    {[op |-> "GetMetricByName", name |-> "pod-a", namespace |-> "default", metric |-> m] :
        m \in {"phpfpm_active_processes", "unknown_metric"}}
    \cup {[op |-> "GetMetricBySelector", namespace |-> "default", metric |-> m] :
        m \in {"phpfpm_active_processes", "unknown_metric"}}

\* what the backend answers them: a failure, one series, two series of two
\* pods, and two series of one pod with a series without the label
ConcOutcomes ==
    {[kind |-> "neterr"],
     Response(200, SuccessBody(<<[Labels |-> <<PodLabel("pod-a")>>,
                                  Values |-> Samples(<<Num(3)>>)]>>, "one")),
     Response(200, SuccessBody(<<[Labels |-> <<PodLabel("pod-b")>>,
                                  Values |-> Samples(<<Num(3)>>)],
                                 [Labels |-> <<PodLabel("pod-a")>>,
                                  Values |-> Samples(<<Num(3), Num(0)>>)]>>, "one")),
     Response(200, SuccessBody(<<[Labels |-> <<PodLabel("pod-a")>>,
                                  Values |-> Samples(<<Num(3)>>)],
                                 [Labels |-> <<>>,
                                  Values |-> Samples(<<Num(3)>>)],
                                 [Labels |-> <<PodLabel("pod-a")>>,
                                  Values |-> Samples(<<Num(3)>>)]>>, "spread"))}

ConcListOutcomes ==
    {[err |-> TRUE, names |-> <<>>], [err |-> FALSE, names |-> <<"pod-a", "pod-b">>]}

ConcRefFailSets == {{}, {"pod-b"}}

\* a goroutine that runs no handler
IdleThread ==
    [pc |-> "idle", req |-> NoReq, outcome |-> NoAnswer, series |-> <<>>,
     listed |-> [err |-> FALSE, names |-> <<>>], refOK |-> TRUE, refFail |-> {},
     result |-> NoResult]

\* the series kept in a field all calls share
SeriesSlot_Shared(i) == 1

\* where call i keeps its normalized series: the local variable "series" of
\* its own activation of the handler
SeriesSlot(i) == i

\* entry of either handler in goroutine i, up to the POST
ConcCall(i, r) ==
    /\ threads[i].pc = "idle"
    /\ threads' = [threads EXCEPT ![i] =
          IF ~isAllowedMetric(provider, r.metric)
          THEN [@ EXCEPT !.req = r, !.pc = "done",
                         !.result = IF r.op = "GetMetricByName"
                                    THEN Error("MetricNotFound")
                                    ELSE NotAllowedBySelector]
          ELSE IF ~ValidEndpoint(provider.signoz.Endpoint)
          THEN [@ EXCEPT !.req = r, !.pc = "done", !.result = Error("invalid request")]
          ELSE [@ EXCEPT !.req = r, !.pc = "query"]]
    /\ UNCHANGED <<provider, single, built>>

\* the backend call of goroutine i ends: GetMetricByName runs to its return,
\* GetMetricBySelector goes on to list the objects
ConcAnswer(i, outcome, refOK) ==
    /\ threads[i].pc = "query"
    /\ LET q == Query(outcome)
           r == threads[i].req
       IN threads' =
            IF q.err # ""
            THEN [threads EXCEPT ![i].outcome = outcome,
                                 ![i].result = Error(q.err),
                                 ![i].pc = "done"]
            ELSE IF r.op = "GetMetricByName"
            THEN [threads EXCEPT ![i].outcome = outcome,
                                 ![i].refOK = refOK,
                                 ![SeriesSlot(i)].series = Series(q.resp),
                                 ![i].result = ByNameResult(Series(q.resp), r, refOK),
                                 ![i].pc = "done"]
            ELSE [threads EXCEPT ![i].outcome = outcome,
                                 ![SeriesSlot(i)].series = Series(q.resp),
                                 ![i].pc = "list"]
    /\ UNCHANGED <<provider, single, built>>

\* helpers.ListObjectNames returns in goroutine i: GetMetricBySelector runs to
\* its return
ConcListed(i, listed, refFail) ==
    /\ threads[i].pc = "list"
    /\ threads' = [threads EXCEPT
          ![i].listed = listed,
          ![i].refFail = refFail,
          ![i].result = IF listed.err
                        THEN Error("ListObjectNames failed")
                        ELSE BySelectorResult(threads[SeriesSlot(i)].series,
                                              listed.names, threads[i].req, refFail),
          ![i].pc = "done"]
    /\ UNCHANGED <<provider, single, built>>

\* the caller of goroutine i has its result
ConcFinish(i) ==
    /\ threads[i].pc = "done"
    /\ threads' = [threads EXCEPT ![i] = IdleThread]
    /\ UNCHANGED <<provider, single, built>>

InitConc ==
    /\ provider \in Providers
    /\ pc = "idle"
    /\ req = NoReq
    /\ inflight = NoRequest
    /\ series = <<>>
    /\ podNames = <<>>
    /\ result = NoResult
    /\ httpCalls = 0
    /\ listCalls = 0
    /\ body = Garbage
    /\ queried = NotQueried
    /\ answered = NoAnswer
    /\ cancelled = FALSE
    /\ threads = [i \in Requests |-> IdleThread]
    /\ built = <<>>

NextConc ==
    \E i \in Requests :
        \/ \E r \in ConcRequests : ConcCall(i, r)
        \/ \E outcome \in ConcOutcomes, refOK \in BOOLEAN : ConcAnswer(i, outcome, refOK)
        \/ \E listed \in ConcListOutcomes, refFail \in ConcRefFailSets :
              ConcListed(i, listed, refFail)
        \/ ConcFinish(i)

SpecConc == InitConc /\ [][NextConc]_vars

(***************************************************************************)
(* The query builders on their own: buildQuery of the adapter, and         *)
(* buildQuery of the variant that filters by labels (a PromQL selector).   *)
(***************************************************************************)
\* the labelFilters maps of the variant
LabelFilterMaps == {<<>>, [env |-> "prod"], [app |-> "web", env |-> "prod"]}

\* the orders in which "for k := range p.labelFilters" can yield the keys
IterationOrders(labelFilters) ==
    {s \in [1..Cardinality(DOMAIN labelFilters) -> DOMAIN labelFilters] :
        Range(s) = DOMAIN labelFilters}

\* the keys in lexicographic order
SortedKeys == <<"app", "env">>

\* the keys left in the order of the iteration
SortStrings_None(keys) == keys

\* sort.Strings(keys), of distinct keys
SortStrings(keys) == SelectSeq(SortedKeys, LAMBDA k : k \in Range(keys))

\* buildQuery of the variant: metric, or metric{k1="v1",k2="v2"}; the selector
\* list stands for the text between the braces
buildQueryLabels(metric, labelFilters, order) ==
    IF Cardinality(DOMAIN labelFilters) = 0
    THEN [metric |-> metric, selectors |-> <<>>]
    ELSE LET keys == SortStrings(order)
         IN [metric |-> metric,
             selectors |-> [i \in DOMAIN keys |->
                              [key |-> keys[i], value |-> labelFilters[keys[i]]]]]

\* the times at which a query is built (Unix ms)
BuildTimes == {Epoch, Epoch + 60000}

\* p.buildQuery(metric) of the adapter, serialized
Build(metric, now, skew) ==
    /\ Len(built) < MaxBuilds
    /\ built' = Append(built,
          [variant |-> "query_range", metric |-> metric,
           query |-> Marshal(buildQuery(provider, metric, now, now + skew))])
    /\ UNCHANGED <<provider, single, threads>>

\* p.buildQuery(metric) of the variant, its map iterated in the given order
BuildLabels(metric, labelFilters, order) ==
    /\ Len(built) < MaxBuilds
    /\ built' = Append(built,
          [variant |-> "promql", metric |-> metric, labelFilters |-> labelFilters,
           order |-> order,
           query |-> buildQueryLabels(metric, labelFilters, order)])
    /\ UNCHANGED <<provider, single, threads>>

InitBuild ==
    /\ provider \in Providers
    /\ pc = "idle"
    /\ req = NoReq
    /\ inflight = NoRequest
    /\ series = <<>>
    /\ podNames = <<>>
    /\ result = NoResult
    /\ httpCalls = 0
    /\ listCalls = 0
    /\ body = Garbage
    /\ queried = NotQueried
    /\ answered = NoAnswer
    /\ cancelled = FALSE
    /\ threads = <<>>
    /\ built = <<>>

NextBuild ==
    \/ \E metric \in MetricNames, now \in BuildTimes, skew \in ClockSkews :
          Build(metric, now, skew)
    \/ \E metric \in MetricNames, labelFilters \in LabelFilterMaps :
          \E order \in IterationOrders(labelFilters) :
             BuildLabels(metric, labelFilters, order)

SpecBuild == InitBuild /\ [][NextBuild]_vars

(***************************************************************************)
(* Vocabulary of the properties.                                           *)
(***************************************************************************)
\* series s carries the identifying label with value name
HasPodLabel(s, name) == podLabelKey \in DOMAIN s.Labels /\ s.Labels[podLabelKey] = name

\* the series attributed to an object by the identifying label
Attributed(ss, name) == SelectSeq(ss, LAMBDA s : HasPodLabel(s, name))

\* the series that carry the identifying label at all
Labelled(ss) == SelectSeq(ss, LAMBDA s : podLabelKey \in DOMAIN s.Labels)

\* the errors SignozClient.Query returns
QueryErrors ==
    {"invalid request", "failed post signoz query", "failed to read response body",
     "signoz returned non-OK status code", "failed to decode response body"}

\* the metric of the request is on the allow-list of the provider
Allowed == req.metric \in Range(provider.metrics)

QueryFailed == result.kind = "error" /\ result.err \in QueryErrors

\* GetMetricByName returned; the backend answered and the reference was built
ByNameAnswered ==
    /\ pc = "done"
    /\ req.op = "GetMetricByName"
    /\ Allowed
    /\ ~QueryFailed
    /\ result # Error("ReferenceFor failed")

\* GetMetricBySelector returned; the backend answered and the objects were listed
BySelectorListed ==
    /\ pc = "done"
    /\ req.op = "GetMetricBySelector"
    /\ Allowed
    /\ ~QueryFailed
    /\ result # Error("ListObjectNames failed")

ItemName(item) == item.DescribedObject.Name

(***************************************************************************)
(* C1.  Fallback: when GetMetricByName finds no normalized series whose    *)
(* identifying label equals the requested object name, it returns the sum  *)
(* of the values of all normalized series, not 0 and not an error.         *)
(***************************************************************************)
C1_Fallback ==
    (ByNameAnswered /\ Attributed(series, req.name) = <<>>)
        => result = Value(MetricValue(req.name, req.namespace, req.metric,
                                      SumValues(series)))

\* two series of another pod, 0.0015 each: the answer is their sum, 3 milli-units
C1_Witness ==
    /\ ByNameAnswered
    /\ Attributed(series, req.name) = <<>>
    /\ Len(series) = 2
    /\ \A i \in DOMAIN series : HasPodLabel(series[i], "pod-b") /\ series[i].Value = 3
    /\ result.kind = "value"
    /\ result.value.Value = 3

(***************************************************************************)
(* C2.  Direct match: when at least one normalized series has the          *)
(* identifying label equal to the requested object name, GetMetricByName   *)
(* returns the sum of exactly the matching series; the fallback does not   *)
(* trigger, whatever the matching values (a sum of 0 included) and         *)
(* whatever other series there are.                                        *)
(***************************************************************************)
C2_DirectMatch ==
    (ByNameAnswered /\ Attributed(series, req.name) # <<>>)
        => result = Value(MetricValue(req.name, req.namespace, req.metric,
                                      SumValues(Attributed(series, req.name))))

\* the matching series sum to 0 while another series has a value
C2_Witness ==
    /\ ByNameAnswered
    /\ Attributed(series, req.name) # <<>>
    /\ SumValues(Attributed(series, req.name)) = 0
    /\ SumValues(series) = 3
    /\ result.kind = "value"
    /\ result.value.Value = 0

(***************************************************************************)
(* C3.  When the backend answers successfully with no series,              *)
(* GetMetricByName returns the value 0 without an error and                *)
(* GetMetricBySelector returns no items without an error, for every        *)
(* object name and every resolved object list.                             *)
(***************************************************************************)
C3_NoSeries ==
    /\ (ByNameAnswered /\ series = <<>>)
          => (result.kind = "value" /\ result.value.Value = 0)
    /\ (BySelectorListed /\ series = <<>>) => result = List(<<>>)

\* objects were resolved, the backend had no series, the list is empty
C3_Witness ==
    /\ BySelectorListed
    /\ series = <<>>
    /\ Len(podNames) = 2
    /\ result = List(<<>>)

(***************************************************************************)
(* C4.  Group aggregation: GetMetricBySelector returns, for each resolved  *)
(* object name that is the identifying-label value of at least one         *)
(* normalized series, the sum of the values of all series with that label  *)
(* value; a resolved object without such a series is omitted, never        *)
(* reported with value 0.                                                  *)
(***************************************************************************)
C4_GroupAggregation ==
    (BySelectorListed /\ result.kind = "list") =>
        LET items == result.Items
            expected == SelectSeq(podNames, LAMBDA pod : Attributed(series, pod) # <<>>)
        IN /\ Len(items) = Len(expected)
           /\ \A i \in DOMAIN items :
                 /\ ItemName(items[i]) = expected[i]
                 /\ items[i].Metric.Name = req.metric
                 /\ items[i].Value =
                       MilliValue(SumValues(Attributed(series, expected[i])))

\* two series of pod-a add up; pod-c, resolved too, has none and is left out
C4_Witness ==
    /\ BySelectorListed
    /\ podNames = <<"pod-a", "pod-c">>
    /\ Len(series) = 2
    /\ \A i \in DOMAIN series : HasPodLabel(series[i], "pod-a") /\ series[i].Value = 3
    /\ result.kind = "list"
    /\ Len(result.Items) = 1
    /\ ItemName(result.Items[1]) = "pod-a"
    /\ result.Items[1].Value = 3

(***************************************************************************)
(* C5.  In GetMetricBySelector a series without the identifying label      *)
(* contributes to no object's value, and there is no group-level           *)
(* fallback: when no series carries a resolved object's name the result    *)
(* is empty, although GetMetricByName on the same series gives each of     *)
(* those objects the sum of all series.                                    *)
(***************************************************************************)
C5_NoGroupFallback ==
    (BySelectorListed /\ result.kind = "list") =>
        /\ result.Items = SelectorItems(Labelled(series), podNames,
                                        req.namespace, req.metric)
        /\ (\A pod \in Range(podNames) : Attributed(series, pod) = <<>>)
              => /\ result.Items = <<>>
                 /\ \A pod \in Range(podNames) :
                       ByNameTotal(series, pod) = SumValues(series)

\* a series without the label and one of an unresolved pod: nothing is reported
C5_Witness ==
    /\ BySelectorListed
    /\ podNames # <<>>
    /\ \A pod \in Range(podNames) : Attributed(series, pod) = <<>>
    /\ \E i \in DOMAIN series :
          podLabelKey \notin DOMAIN series[i].Labels /\ series[i].Value = 3
    /\ Labelled(series) # <<>>
    /\ result = List(<<>>)

(***************************************************************************)
(* C6.  The selector-based result has items only for object names that     *)
(* helpers.ListObjectNames returned: a series whose identifying label is   *)
(* not in the resolved list never produces an item.                        *)
(***************************************************************************)
C6_OnlyResolvedObjects ==
    (pc = "done" /\ req.op = "GetMetricBySelector" /\ result.kind = "list") =>
        \A i \in DOMAIN result.Items : ItemName(result.Items[i]) \in Range(podNames)

\* the backend has a series of pod-b, which was not resolved: no item for it
C6_Witness ==
    /\ BySelectorListed
    /\ podNames = <<"pod-a">>
    /\ \E i \in DOMAIN series : HasPodLabel(series[i], "pod-b") /\ series[i].Value = 3
    /\ result.kind = "list"
    /\ Len(result.Items) = 1
    /\ ItemName(result.Items[1]) = "pod-a"

(***************************************************************************)
(* C7.  A request, by name or by selector, for a metric that is not on     *)
(* the allow-list never issues an HTTP request to the backend: its count   *)
(* of backend calls stays 0.                                               *)
(***************************************************************************)
C7_NoCallWhenNotAllowed ==
    (req.op # "none" /\ ~Allowed) =>
        /\ httpCalls = 0
        /\ inflight = NoRequest
        /\ pc = "done"

\* a selector request for an unknown metric has returned without a call
C7_Witness ==
    /\ pc = "done"
    /\ req.op = "GetMetricBySelector"
    /\ req.metric = "unknown_metric"
    /\ httpCalls = 0

(***************************************************************************)
(* C8.  A request for a metric outside the allow-list is reported as "not  *)
(* found" on both entry points: GetMetricByName and GetMetricBySelector    *)
(* each return the metric-not-found signal, not a value, an empty success  *)
(* or a transport error.                                                   *)
(***************************************************************************)
C8_NotFoundOnBothEntryPoints ==
    (pc = "done" /\ ~Allowed) => result = Error("MetricNotFound")

(***************************************************************************)
(* C9.  Normalization: every raw series with a non-empty value sequence    *)
(* gives exactly one normalized entry, in input order, whose value is the  *)
(* last element of the sequence; a raw series with an empty value sequence *)
(* gives no entry and no error.                                            *)
(***************************************************************************)
C9_Normalization ==
    (pc = "normalized" /\ body.json
        /\ \A s \in Range(RawSeriesOf(body.Results)) :
              \A x \in Range(s.Values) : x.Value.t = "num") =>
        LET nonEmpty == SelectSeq(RawSeriesOf(body.Results),
                                  LAMBDA s : Len(s.Values) > 0)
        IN /\ queried.err = ""
           /\ Len(series) = Len(nonEmpty)
           /\ \A i \in DOMAIN series :
                 /\ series[i].Value = nonEmpty[i].Values[Len(nonEmpty[i].Values)].Value.v
                 /\ series[i].Labels = LabelMap(nonEmpty[i])

\* a series with samples 0.0015 then 0 and a series without samples: one entry, 0
C9_Witness ==
    /\ pc = "normalized"
    /\ queried.err = ""
    /\ Len(RawSeriesOf(body.Results)) = 2
    /\ RawSeriesOf(body.Results)[1].Values = <<>>
    /\ RawSeriesOf(body.Results)[2].Values = Samples(<<Num(3), Num(0)>>)
    /\ Len(series) = 1
    /\ series[1].Value = 0

(***************************************************************************)
(* C10.  Malformed individual sample: when the selected value of one       *)
(* series of a response is not a number, that series alone is dropped; the *)
(* other series are still normalized and the request does not fail.        *)
(***************************************************************************)
C10_MalformedSampleDropped ==
    (pc = "normalized" /\ body.json /\ body.Status = "success"
        /\ \E s \in Range(RawSeriesOf(body.Results)) :
              Len(s.Values) > 0 /\ s.Values[Len(s.Values)].Value.t # "num") =>
        LET wellFormed ==
              SelectSeq(RawSeriesOf(body.Results),
                        LAMBDA s : /\ Len(s.Values) > 0
                                   /\ s.Values[Len(s.Values)].Value.t = "num")
        IN /\ queried.err = ""
           /\ Len(series) = Len(wellFormed)
           /\ \A i \in DOMAIN series :
                 series[i].Value = wellFormed[i].Values[Len(wellFormed[i].Values)].Value.v

(***************************************************************************)
(* Vocabulary of the properties about the backend call.                    *)
(***************************************************************************)
\* the backend call ended in a network error, an expired timeout, a failed
\* read of the body or a status code other than 200
TransportFailed ==
    \/ answered.kind \in {"neterr", "timeout", "readerr"}
    \/ answered.kind = "response" /\ answered.StatusCode # 200

TransportErrors ==
    {"failed post signoz query", "failed to read response body",
     "signoz returned non-OK status code"}

DecodeError == "failed to decode response body"

\* the backend answered 200
Answered200 == answered.kind = "response" /\ answered.StatusCode = 200

\* the endpoint of the provider is a URL
EndpointParses == provider.signoz.Endpoint = "https://signoz.example.com"

\* the "spec" object of the query in flight
InflightSpec == inflight.Body.compositeQuery.queries[1].spec

(***************************************************************************)
(* C11.  Backend-reported query failure: when the response is HTTP 200 and *)
(* decodes as JSON but its status field is not "success", the client       *)
(* returns an error and the request yields no metric value; no series of   *)
(* such a response is aggregated.                                          *)
(***************************************************************************)
C11_BackendReportedFailure ==
    (pc = "done" /\ Answered200 /\ answered.decodable /\ answered.shaped
        /\ answered.Status # "success") =>
        /\ result.kind = "error"
        /\ series = <<>>
        /\ listCalls = 0

(***************************************************************************)
(* C12.  Transport failure: when the backend call ends in a network error, *)
(* an expired timeout, a status code other than 200 or a failed read of    *)
(* the body, GetMetricByName and GetMetricBySelector return an error and   *)
(* no value: the handler is done, with the error of the client, without    *)
(* series and without having listed objects.                               *)
(***************************************************************************)
C12_TransportFailure ==
    TransportFailed =>
        /\ pc = "done"
        /\ result.kind = "error"
        /\ result.err \in TransportErrors
        /\ series = <<>>
        /\ listCalls = 0

\* the timeout expired under a selector request: it returned the error
C12_Witness ==
    /\ pc = "done"
    /\ req.op = "GetMetricBySelector"
    /\ answered.kind = "timeout"
    /\ result = Error("failed post signoz query")

(***************************************************************************)
(* C13.  Decode failure: a 200 response whose body is not valid JSON or    *)
(* does not have the expected shape yields the decode error, and a         *)
(* transport failure never yields that error.                              *)
(***************************************************************************)
C13_DecodeFailure ==
    /\ (pc = "done" /\ Answered200 /\ (~answered.decodable \/ ~answered.shaped))
          => result = Error(DecodeError)
    /\ TransportFailed => result # Error(DecodeError)

(***************************************************************************)
(* C14.  Every request for an allowed metric, by name or by selector,      *)
(* issues exactly one HTTP request, however many objects are resolved and  *)
(* whether or not the call succeeds.                                       *)
(***************************************************************************)
C14_ExactlyOneRequest ==
    (pc = "done" /\ Allowed) => httpCalls = 1

(***************************************************************************)
(* C14, amended.  A request for an allowed metric issues exactly one HTTP  *)
(* request when its endpoint is one a request can be made to, and none     *)
(* when it is not; never more than one: a failed call is not retried, the  *)
(* handler returns its error with nothing left in flight.                  *)
(***************************************************************************)
C14_OneRequestWhenItCanBeMade ==
    /\ httpCalls <= 1
    /\ (req.op # "none" /\ Allowed) =>
          httpCalls = IF EndpointParses THEN 1 ELSE 0
    /\ (pc = "done" /\ answered # NoAnswer /\ result.kind = "error") =>
          (httpCalls = 1 /\ inflight = NoRequest)

\* two objects resolved and reported, one request made
C14_Witness ==
    /\ BySelectorListed
    /\ result.kind = "list"
    /\ Len(podNames) = 2
    /\ Len(result.Items) = 2
    /\ httpCalls = 1

(***************************************************************************)
(* C15.  Query window: the query buildQuery produces has End at the        *)
(* current time of the build and Start exactly the lookback before End (5  *)
(* minutes give Start = End - 300 s), whatever the clock does during the   *)
(* build.                                                                  *)
(***************************************************************************)
C15_QueryWindow ==
    inflight # NoRequest =>
        inflight.Body.start = inflight.Body.end - provider.timeRangeMinutes * 60000

(***************************************************************************)
(* C16.  Filter predicate: when the configured filter expression is empty  *)
(* the serialized query has no filter field at all; when it is not, the    *)
(* filter field carries exactly that string as its expression.             *)
(***************************************************************************)
C16_FilterPredicate ==
    inflight # NoRequest =>
        IF provider.filterExpression = ""
        THEN "filter" \notin DOMAIN InflightSpec
        ELSE /\ "filter" \in DOMAIN InflightSpec
             /\ InflightSpec.filter = [expression |-> provider.filterExpression]

\* a query in flight of a provider without filter expression
C16_Witness ==
    /\ inflight # NoRequest
    /\ provider.filterExpression = ""
    /\ DOMAIN InflightSpec = {"name", "signal", "stepInterval", "aggregations", "groupBy"}

(***************************************************************************)
(* C17.  Every query built groups by exactly one label, k8s.pod.name, and  *)
(* that is the label by which GetMetricByName and GetMetricBySelector      *)
(* attribute a series to an object, for every metric name and filter       *)
(* expression.                                                             *)
(***************************************************************************)
C17_GroupByIdentifyingLabel ==
    /\ inflight # NoRequest =>
          /\ Len(inflight.Body.compositeQuery.queries) = 1
          /\ Len(InflightSpec.groupBy) = 1
          /\ InflightSpec.groupBy[1].name = "k8s.pod.name"
    /\ ByNameAnswered =>
          LET own == SelectSeq(series, LAMBDA s :
                        /\ "k8s.pod.name" \in DOMAIN s.Labels
                        /\ s.Labels["k8s.pod.name"] = req.name)
          IN result.value.Value = MilliValue(SumValues(IF own # <<>> THEN own ELSE series))
    /\ (BySelectorListed /\ result.kind = "list") =>
          \A i \in DOMAIN result.Items :
             \E j \in DOMAIN series :
                /\ "k8s.pod.name" \in DOMAIN series[j].Labels
                /\ series[j].Labels["k8s.pod.name"] = ItemName(result.Items[i])

\* a query for the second metric of a provider with a filter, in flight
C17_Witness ==
    /\ inflight # NoRequest
    /\ provider.filterExpression # ""
    /\ InflightSpec.aggregations[1].metricName = "nginx_connections"
    /\ InflightSpec.groupBy[1].name = "k8s.pod.name"

(***************************************************************************)
(* C18.  Cancellation: when the context of GetMetricByName or              *)
(* GetMetricBySelector is cancelled while the backend call is in flight,   *)
(* the call is aborted and the request ends in a failure; a cancelled      *)
(* request never returns an aggregated value.                              *)
(***************************************************************************)
C18_Cancellation ==
    (cancelled /\ pc = "done") =>
        result.kind = "error"

(***************************************************************************)
(* C19.  No shared mutable state: in every interleaving of concurrent      *)
(* requests on one provider, the result of each request is the result it   *)
(* produces alone from the same backend response and the same resolved     *)
(* objects, and no step of a request changes the configuration of the      *)
(* provider (allow-list, lookback, filter expression, endpoint, API key).  *)
(***************************************************************************)
\* what a request returns when it runs alone
Alone(th) ==
    IF ~(th.req.metric \in Range(provider.metrics))
    THEN (IF th.req.op = "GetMetricByName" THEN Error("MetricNotFound") ELSE List(<<>>))
    ELSE IF ~ValidEndpoint(provider.signoz.Endpoint)
    THEN Error("invalid request")
    ELSE LET q == Query(th.outcome)
         IN IF q.err # "" THEN Error(q.err)
            ELSE IF th.req.op = "GetMetricByName"
            THEN ByNameResult(Series(q.resp), th.req, th.refOK)
            ELSE IF th.listed.err THEN Error("ListObjectNames failed")
            ELSE BySelectorResult(Series(q.resp), th.listed.names, th.req, th.refFail)

C19_NoSharedState ==
    /\ [](\A i \in Requests :
             threads[i].pc = "done" => threads[i].result = Alone(threads[i]))
    /\ [][provider' = provider]_vars

\* a selector request got one series and waits for its objects while another
\* selector request, answered two series, has returned its two items
C19_Witness ==
    /\ threads[1].pc = "list"
    /\ Len(threads[1].series) = 1
    /\ threads[2].pc = "done"
    /\ threads[2].req.op = "GetMetricBySelector"
    /\ Len(threads[2].series) = 2
    /\ threads[2].result.kind = "list"
    /\ Len(threads[2].result.Items) = 2

(***************************************************************************)
(* C20.  Query determinism: two builds with the same metric name, lookback *)
(* and filter configuration give the same query except for the timestamps  *)
(* taken from the clock; in the label-filter variant two builds with the   *)
(* same label filters give the same query whatever order the map is        *)
(* iterated in; and a build changes nothing of the provider.               *)
(***************************************************************************)
\* a serialized query with its timestamps blanked
Timeless(query) == [query EXCEPT !.start = 0, !.end = 0]

C20_QueryDeterminism ==
    /\ [](\A i, j \in DOMAIN built :
             (built[i].variant = built[j].variant /\ built[i].metric = built[j].metric) =>
                IF built[i].variant = "query_range"
                THEN Timeless(built[i].query) = Timeless(built[j].query)
                ELSE built[i].labelFilters = built[j].labelFilters
                        => built[i].query = built[j].query)
    /\ [][provider' = provider]_vars

\* the same two label filters iterated in two orders: one query
C20_Witness ==
    /\ Len(built) = 2
    /\ built[1].variant = "promql"
    /\ built[2].variant = "promql"
    /\ built[1].metric = built[2].metric
    /\ built[1].labelFilters = built[2].labelFilters
    /\ built[1].order = <<"env", "app">>
    /\ built[2].order = <<"app", "env">>
    /\ built[1].query = built[2].query
    /\ Len(built[1].query.selectors) = 2

(***************************************************************************)
(* C21.  Failures above the level of a sample are fatal to the request:    *)
(* in GetMetricBySelector, when the listing of the objects fails or the    *)
(* reference of one resolved object cannot be built, the request returns   *)
(* an error and no items, not the items computed for earlier objects; in   *)
(* GetMetricByName a failing reference gives an error and no value.        *)
(***************************************************************************)
\* the backend call of a concurrent request returned a response Query accepts
AnsweredOK(th) == th.outcome.kind = "response" /\ Query(th.outcome).err = ""

C21_FailuresAreFatal ==
    \A i \in Requests :
        LET th == threads[i]
        IN /\ (th.pc = "done" /\ th.req.op = "GetMetricBySelector" /\ AnsweredOK(th)
                  /\ (\/ th.listed.err
                      \/ \E pod \in Range(th.listed.names) :
                            pod \in th.refFail /\ Attributed(th.series, pod) # <<>>))
                => th.result.kind = "error"
           /\ (th.pc = "done" /\ th.req.op = "GetMetricByName" /\ AnsweredOK(th)
                  /\ ~th.refOK)
                => th.result.kind = "error"

\* pod-a and pod-b have series; the reference of pod-b, the second object,
\* fails: an error, not the item of pod-a
C21_Witness ==
    \E i \in Requests :
        /\ threads[i].pc = "done"
        /\ threads[i].req.op = "GetMetricBySelector"
        /\ Len(threads[i].series) = 2
        /\ threads[i].listed.names = <<"pod-a", "pod-b">>
        /\ threads[i].refFail = {"pod-b"}
        /\ threads[i].result = Error("ReferenceFor failed")

(***************************************************************************)
(* C22.  Ordering in GetMetricBySelector: the allow-list check comes       *)
(* first, then the backend query, then the listing of the objects; when    *)
(* the query fails the objects are never listed, and when the metric is    *)
(* not allowed neither the backend nor the listing is called.              *)
(***************************************************************************)
C22_Ordering ==
    req.op = "GetMetricBySelector" =>
        /\ ~Allowed => (httpCalls = 0 /\ listCalls = 0)
        /\ pc = "query" => (httpCalls = 1 /\ listCalls = 0)
        /\ listCalls > 0 =>
              /\ Allowed
              /\ listCalls = 1
              /\ httpCalls = 1
              /\ Answered200 /\ answered.decodable
        /\ (TransportFailed \/ (Answered200 /\ ~answered.decodable)) => listCalls = 0

\* the backend has answered and the objects are being listed
C22_Witness ==
    /\ req.op = "GetMetricBySelector"
    /\ pc = "list"
    /\ httpCalls = 1
    /\ listCalls = 1
    /\ series # <<>>

(***************************************************************************)
(* C24.  By-name and by-selector agree on attributed objects: for a        *)
(* backend response and an object name that is the identifying-label value *)
(* of at least one normalized series and is among the resolved objects,    *)
(* the value GetMetricByName returns for the name is the value of the item *)
(* of that object in the result of GetMetricBySelector.                    *)
(***************************************************************************)
C24_ByNameBySelectorAgree ==
    \A i, j \in Requests :
        LET n == threads[i]
            s == threads[j]
        IN (/\ n.pc = "done" /\ n.req.op = "GetMetricByName" /\ n.result.kind = "value"
            /\ s.pc = "done" /\ s.req.op = "GetMetricBySelector" /\ s.result.kind = "list"
            /\ n.req.metric = s.req.metric
            /\ n.outcome = s.outcome
            /\ n.req.name \in Range(s.listed.names)
            /\ Attributed(n.series, n.req.name) # <<>>)
           => /\ Cardinality({k \in DOMAIN s.result.Items :
                                ItemName(s.result.Items[k]) = n.req.name}) = 1
              /\ \A k \in DOMAIN s.result.Items :
                    ItemName(s.result.Items[k]) = n.req.name
                       => s.result.Items[k] = n.result.value

\* two series of pod-a, 0.0015 each, and one without the label: both
\* handlers report 3 milli-units for pod-a
C24_Witness ==
    /\ threads[1].pc = "done"
    /\ threads[1].req.op = "GetMetricByName"
    /\ threads[1].result.kind = "value"
    /\ threads[1].result.value.Value = 3
    /\ Len(threads[1].series) = 3
    /\ threads[2].pc = "done"
    /\ threads[2].req.op = "GetMetricBySelector"
    /\ threads[2].outcome = threads[1].outcome
    /\ threads[2].result.kind = "list"
    /\ Len(threads[2].result.Items) = 1
    /\ threads[2].result.Items[1] = threads[1].result.value

(***************************************************************************)
(* C23.  In GetMetricByName a series without the identifying label is      *)
(* never a direct match of the requested name, the empty name included:    *)
(* the result is the sum of the series that carry the label with the       *)
(* requested name as its value, or, when there is none, the sum of all     *)
(* series.                                                                 *)
(***************************************************************************)
C23_UnlabelledNeverDirectMatch ==
    ByNameAnswered =>
        LET own == Attributed(series, req.name)
        IN result.value.Value = MilliValue(SumValues(IF own # <<>> THEN own ELSE series))

====
